---- MODULE Spec2Model ----
(* A model of the Navball panel (src/src/NavballPanel.tsx): one React       *)
(* function component, its hook state, its passive effects, and the host    *)
(* callbacks it installs on the PanelExtensionContext.                      *)
(*                                                                          *)
(* React is modelled by two steps.  Render runs the component function: it  *)
(* applies every queued state update and compares each effect's dependency  *)
(* list with the one of the previous render.  FlushEffects runs the effects *)
(* whose dependencies changed, in declaration order, with the values of     *)
(* that render.  Host callbacks (onRender, the settings action handler, the *)
(* resize observer) only queue updates or touch the camera, and may arrive  *)
(* between the two steps.                                                   *)
EXTENDS Integers, Sequences, FiniteSets, TLC

\* ---------------------------------------------------------------- bounds

\* Host invocations of context.onRender in one behaviour.
MaxFrames == 2
\* Queued setState calls on the `state` hook between two renders.
MaxQueue == 1

Frames == 1..MaxFrames
\* Length of the topic lists of the topic-list specification.
MaxTopics == 3

\* ------------------------------------------------------------- host data

\* The value of an absent optional (undefined).
Undef == "undefined"

QuatSchema == "foxglove.Quaternion"
VecSchema == "foxglove.Vector3"

Topic(n, s) == [name |-> n, schemaName |-> s]

\* The topic arrays the host hands over; id is the array's identity, so two
\* arrays of equal content are still different dependencies.
NoTopics == [defined |-> FALSE, id |-> 0, list |-> <<>>]
HostTopics ==
    { [defined |-> TRUE, id |-> 1,
       list |-> <<Topic("/att", QuatSchema), Topic("/course", VecSchema),
                  Topic("/att2", QuatSchema)>>],
      [defined |-> TRUE, id |-> 2,
       list |-> <<Topic("/course", VecSchema), Topic("/att2", QuatSchema)>>] }

\* A decoded payload; isNull is a message whose payload is null.
Quat(x, y, z, w) == [isNull |-> FALSE, x |-> x, y |-> y, z |-> z, w |-> w]
Vec(x, y, z) == [isNull |-> FALSE, x |-> x, y |-> y, z |-> z, w |-> 0]
NullPayload == [isNull |-> TRUE, x |-> 0, y |-> 0, z |-> 0, w |-> 0]

Msg(t, p) == [topic |-> t, message |-> p]

\* The message batches (renderState.currentFrame) the host hands over.
HostBatches ==
    { <<>>,
      <<Msg("/att", Quat(1, 2, 3, 4)), Msg("/att", Quat(0, 0, 0, 1)),
        Msg("/course", Vec(1, 0, 0))>>,
      <<Msg("/att2", Quat(4, 3, 2, 1)), Msg("/course", Vec(0, 1, 5))>>,
      <<Msg("/course", Vec(0, 0, 7))>>,
      <<Msg("/att", NullPayload), Msg("/course", NullPayload)>> }

\* useState<messages>() before any frame.
NoMessages == [defined |-> FALSE, frame |-> 0, batch |-> <<>>]

\* Container sizes (clientWidth, clientHeight) the host layout can give.
HostSizes == { <<2, 1>>, <<1, 0>> }

\* The configuration the layout can restore (context.initialState).
InitialStates ==
    { [topic |-> t, course_topic |-> c] : t \in {Undef, "/att"}, c \in {Undef, "/course"} }

\* ----------------------------------------------------------------- state

VARIABLES
    phase,            \* "created" (root.render scheduled), "mounted", "unmounted"
    topics,           \* useState topics: [defined, id, list]
    messages,         \* useState messages: [defined, frame, batch]
    renderDone,       \* useState renderDone: 0 (undefined) or the invocation whose done it is
    state,            \* useState state: PanelState
    updTopics,        \* queued setTopics: [set, value]
    updMessages,      \* queued setMessages: [set, value]
    updRenderDone,    \* queued setRenderDone: [set, value]
    stateQueue,       \* queued setState calls, oldest first
    pendingEffects,   \* effects of the last render not yet run
    savedState,       \* host: last argument of context.saveState: [saved, value]
    subscribed,       \* host: last argument of context.subscribe: [called, topics]
    subscribeLog,     \* host: the context.subscribe calls of the last effect flush
    settingsTree,     \* host: last argument of context.updatePanelSettingsEditor
    onRenderInstalled,\* host: context.onRender is set
    frameCount,       \* host: number of context.onRender invocations so far
    doneCount,        \* host: how often each invocation's done callback was called
    sceneCreated,     \* how often the Three.js scene was built
    rendererDisposed, \* how often renderer.dispose ran
    resizeObserved,   \* the ResizeObserver is observing the container
    containerSize,    \* the container's <<clientWidth, clientHeight>>
    cameraAspect,     \* camera.aspect
    sphereQuat,       \* sphere.quaternion as <<x, y, z, w>>
    courseVisible,    \* courseLine.visible
    courseRotationY,  \* courseLine.rotation.y, in milliradians
    animationScheduled, \* a requestAnimationFrame(animate) callback is pending
    drawnDisposed,    \* renderer.render was invoked after renderer.dispose
    selectionStale    \* observer: the selection changed and context.subscribe has
                      \* not been called with the new selection since

hookVars == <<topics, messages, renderDone, state>>
queueVars == <<updTopics, updMessages, updRenderDone, stateQueue>>
hostVars == <<savedState, subscribed, subscribeLog, settingsTree, onRenderInstalled,
              frameCount, doneCount>>
sceneVars == <<sceneCreated, rendererDisposed, resizeObserved, containerSize,
               cameraAspect, sphereQuat, courseVisible, courseRotationY,
               animationScheduled, drawnDisposed>>
vars == <<phase, hookVars, queueVars, pendingEffects, hostVars, sceneVars, selectionStale>>

\* ------------------------------------------------------- pure functions

RECURSIVE FilterSchemaReversed(_, _)
FilterSchemaReversed(list, schema) ==
    IF list = <<>> THEN <<>>
    ELSE IF Head(list).schemaName = schema
         THEN FilterSchemaReversed(Tail(list), schema) \o <<Head(list)>>
         ELSE FilterSchemaReversed(Tail(list), schema)

\* array.filter: the elements satisfying the test, in order.
RECURSIVE FilterSchema(_, _)
FilterSchema(list, schema) ==
    IF list = <<>> THEN <<>>
    ELSE IF Head(list).schemaName = schema
         THEN <<Head(list)>> \o FilterSchema(Tail(list), schema)
         ELSE FilterSchema(Tail(list), schema)

\* (topics ?? []).filter(topic => topic.schemaName === schema)
Candidates(tps, schema) ==
    IF tps.defined THEN FilterSchema(tps.list, schema) ELSE <<>>

quatTopics(tps) == Candidates(tps, QuatSchema)
vecTopics(tps) == Candidates(tps, VecSchema)

\* list.map(topic => topic.name)
Names(list) == [i \in 1..Len(list) |-> list[i].name]

RECURSIVE FindLast(_, _)
FindLast(batch, name) ==
    IF batch = <<>> THEN [found |-> FALSE, message |-> NullPayload]
    ELSE LET rest == FindLast(Tail(batch), name) IN
         IF rest.found THEN rest
         ELSE IF Head(batch).topic = name
              THEN [found |-> TRUE, message |-> Head(batch).message]
              ELSE rest

\* array.find(m => m.topic === name): [found, message]; undefined equals no topic.
RECURSIVE Find(_, _)
Find(batch, name) ==
    IF batch = <<>> THEN [found |-> FALSE, message |-> NullPayload]
    ELSE IF Head(batch).topic = name
         THEN [found |-> TRUE, message |-> Head(batch).message]
         ELSE Find(Tail(batch), name)

\* msg?.message != null
HasPayload(f) == f.found /\ ~f.message.isNull

\* [state.topic, state.course_topic].filter(t => t != undefined)
SelectedTopics(st) ==
    (IF st.topic # Undef THEN <<st.topic>> ELSE <<>>)
        \o (IF st.course_topic # Undef THEN <<st.course_topic>> ELSE <<>>)

\* One queued setState call applied to the previous state.
ApplyUpdate(prev, u) ==
    CASE u.kind = "replace" -> [topic |-> u.value, course_topic |-> u.course]
      [] u.kind = "topic" -> [prev EXCEPT !.topic = u.value]
      [] u.kind = "course_topic" -> [prev EXCEPT !.course_topic = u.value]

RECURSIVE ApplyUpdates(_, _)
ApplyUpdates(prev, queue) ==
    IF queue = <<>> THEN prev
    ELSE ApplyUpdates(ApplyUpdate(prev, Head(queue)), Tail(queue))

\* Math.sqrt on the integers whose root is an integer (the vectors of HostBatches).
Sqrt(n) == CHOOSE r \in 0..n : r * r = n

\* Math.atan2 on unit axis vectors, in milliradians.
Atan2(a, b) ==
    CASE a = 0 /\ b = 1 -> 0
      [] a = 1 /\ b = 0 -> 1571
      [] a = 0 /\ b = -1 -> 3142
      [] a = -1 /\ b = 0 -> -1571

\* width / height in IEEE arithmetic: a ratio, or Infinity, or NaN.
Divide(w, h) ==
    IF h # 0 THEN <<"ratio", w, h>>
    ELSE IF w # 0 THEN <<"Infinity", 0, 0>> ELSE <<"NaN", 0, 0>>

\* ------------------------------------------------ dependency comparisons

\* What one render needs of the previous one to compare dependency lists.
\* stateIsNew: the state object is a new object (some setState was applied).

\* [context, state]
SaveStateDeps(stateIsNew) == stateIsNew

\* [context, state.topic, state.course_topic]
SubscribeDeps(old, new) ==
    old.topic # new.topic \/ old.course_topic # new.course_topic

DefaultTopicDepsTopicOnly(old, new, oldTopics, newTopics) == old.topic # new.topic

\* [state.topic, quatTopics]; quatTopics is memoised on [topics].
DefaultTopicDeps(old, new, oldTopics, newTopics) ==
    old.topic # new.topic \/ oldTopics.id # newTopics.id
        \/ oldTopics.defined # newTopics.defined

\* [actionHandler, context, state.topic, state.course_topic, quatTopics, vecTopics]
SettingsDeps(old, new, oldTopics, newTopics) ==
    SubscribeDeps(old, new) \/ oldTopics.id # newTopics.id
        \/ oldTopics.defined # newTopics.defined

\* [messages, state.topic, state.course_topic]
MessagesDeps(old, new, oldMessages, newMessages) ==
    SubscribeDeps(old, new) \/ oldMessages.frame # newMessages.frame
        \/ oldMessages.defined # newMessages.defined

SceneDepsAlways == TRUE

\* []: the scene effect's dependencies never change.
SceneDeps == FALSE

RenderDoneDepsAlways(old, new) == TRUE

\* [renderDone]
RenderDoneDeps(old, new) == old # new

AllEffects ==
    {"saveState", "subscribe", "defaultTopic", "settings", "scene", "onRender",
     "messages", "renderDone"}

\* The effects a re-render schedules.
\* isNew: the state object is new; s, t, m, d: state, topics, messages and
\* renderDone of the previous render; s2, t2, m2, d2: those of this render.
ChangedEffects(isNew, s, s2, t, t2, m, m2, d, d2) ==
    (IF SaveStateDeps(isNew) THEN {"saveState"} ELSE {})
    \cup (IF SubscribeDeps(s, s2) THEN {"subscribe"} ELSE {})
    \cup (IF DefaultTopicDeps(s, s2, t, t2) THEN {"defaultTopic"} ELSE {})
    \cup (IF SettingsDeps(s, s2, t, t2) THEN {"settings"} ELSE {})
    \cup (IF SceneDeps THEN {"scene"} ELSE {})
    \cup (IF MessagesDeps(s, s2, m, m2) THEN {"messages"} ELSE {})
    \cup (IF RenderDoneDeps(d, d2) THEN {"renderDone"} ELSE {})

\* ----------------------------------------------------------------- effects

SavedValueTopicOnly(st) == [st EXCEPT !.course_topic = Undef]

\* context.saveState(state)
SavedValue(st) == st

\* The context.subscribe calls of the save-state effect, in order.
SaveStateSubscribes(st) ==
    (IF st.topic # Undef THEN << <<st.topic>> >> ELSE <<>>)
        \o (IF st.course_topic # Undef THEN << <<st.course_topic>> >> ELSE <<>>)

SubscribeEffectTopicOnly(st) ==
    << IF st.topic # Undef THEN <<st.topic>> ELSE <<>> >>

\* The context.subscribe call of the subscribe effect.
SubscribeEffect(st) == << SelectedTopics(st) >>

\* array[0]?.name
FirstName(list) == IF list = <<>> THEN Undef ELSE Head(list).name

DefaultTopicEffectUnguarded(st, tps) ==
    << [kind |-> "replace", value |-> FirstName(quatTopics(tps)), course |-> Undef] >>

DefaultTopicEffectWithCourse(st, tps) ==
    IF st.topic = Undef
    THEN << [kind |-> "replace", value |-> FirstName(quatTopics(tps)),
             course |-> FirstName(vecTopics(tps))] >>
    ELSE <<>>

\* The setState call of the default-topic effect: the new state is the object
\* {topic: quatTopics[0]?.name}, which has no course_topic.
DefaultTopicEffect(st, tps) ==
    IF st.topic = Undef
    THEN << [kind |-> "replace", value |-> FirstName(quatTopics(tps)), course |-> Undef] >>
    ELSE <<>>

\* The settings tree handed to context.updatePanelSettingsEditor.
SettingsTreeOf(st, tps) ==
    [defined |-> TRUE,
     topicOptions |-> Names(quatTopics(tps)),
     topicValue |-> st.topic,
     courseOptions |-> Names(vecTopics(tps)),
     courseValue |-> st.course_topic]

IdentityQuat == <<0, 0, 0, 1>>

SetQuaternionNoSwap(quaternion) ==
    <<quaternion.x, quaternion.y, quaternion.z, quaternion.w>>

\* sphere.quaternion.set(quaternion.x, quaternion.z, quaternion.y, quaternion.w)
SetQuaternion(quaternion) ==
    <<quaternion.x, quaternion.z, quaternion.y, quaternion.w>>

SphereQuatAfterReset(q, msgs, st) ==
    IF ~msgs.defined THEN q
    ELSE LET quatMsg == Find(msgs.batch, st.topic) IN
         IF HasPayload(quatMsg)
         THEN SetQuaternion(quatMsg.message)
         ELSE IdentityQuat

\* sphere.quaternion after the messages effect: set(x, z, y, w) of the first
\* message on state.topic, when it has a payload.
SphereQuatAfter(q, msgs, st) ==
    IF ~msgs.defined THEN q
    ELSE LET quatMsg == Find(msgs.batch, st.topic) IN
         IF HasPayload(quatMsg)
         THEN SetQuaternion(quatMsg.message)
         ELSE q

\* Math.sqrt(vector.x * vector.x + vector.y * vector.y)
HorizontalLength(v) == Sqrt(v.x * v.x + v.y * v.y)

CourseVisibleAfterKeep(vis, msgs, st) ==
    IF ~msgs.defined THEN vis
    ELSE LET courseMsg == Find(msgs.batch, st.course_topic) IN
         IF HasPayload(courseMsg)
         THEN (IF HorizontalLength(courseMsg.message) > 0 THEN TRUE ELSE vis)
         ELSE vis

\* courseLine.visible after the messages effect.
CourseVisibleAfter(vis, msgs, st) ==
    IF ~msgs.defined THEN vis
    ELSE LET courseMsg == Find(msgs.batch, st.course_topic) IN
         IF HasPayload(courseMsg)
         THEN (IF HorizontalLength(courseMsg.message) > 0 THEN TRUE ELSE vis)
         ELSE FALSE

CourseRotationAfterSwapped(rot, msgs, st) ==
    IF ~msgs.defined THEN rot
    ELSE LET courseMsg == Find(msgs.batch, st.course_topic) IN
         IF HasPayload(courseMsg) /\ HorizontalLength(courseMsg.message) > 0
         THEN LET length == HorizontalLength(courseMsg.message) IN
              Atan2(courseMsg.message.y \div length, courseMsg.message.x \div length)
         ELSE rot

\* courseLine.rotation.y after the messages effect.
CourseRotationAfter(rot, msgs, st) ==
    IF ~msgs.defined THEN rot
    ELSE LET courseMsg == Find(msgs.batch, st.course_topic) IN
         IF HasPayload(courseMsg) /\ HorizontalLength(courseMsg.message) > 0
         THEN LET length == HorizontalLength(courseMsg.message) IN
              Atan2(courseMsg.message.x \div length, courseMsg.message.y \div length)
         ELSE rot

\* ------------------------------------------------------------------ Init

\* initNavballPanel has returned: the root is created and its first render
\* is scheduled; nothing has rendered and no effect has run.
Init ==
    /\ phase = "created"
    /\ topics = NoTopics
    /\ messages = NoMessages
    /\ renderDone = 0
    /\ state \in InitialStates
    /\ updTopics = [set |-> FALSE, value |-> NoTopics]
    /\ updMessages = [set |-> FALSE, value |-> NoMessages]
    /\ updRenderDone = [set |-> FALSE, value |-> 0]
    /\ stateQueue = <<>>
    /\ pendingEffects = {}
    /\ savedState = [saved |-> FALSE, value |-> [topic |-> Undef, course_topic |-> Undef]]
    /\ subscribed = [called |-> FALSE, topics |-> <<>>]
    /\ subscribeLog = <<>>
    /\ settingsTree = [defined |-> FALSE, topicOptions |-> <<>>, topicValue |-> Undef,
                       courseOptions |-> <<>>, courseValue |-> Undef]
    /\ onRenderInstalled = FALSE
    /\ frameCount = 0
    /\ doneCount = [f \in Frames |-> 0]
    /\ sceneCreated = 0
    /\ rendererDisposed = 0
    /\ resizeObserved = FALSE
    /\ containerSize = <<2, 1>>
    /\ cameraAspect = <<"none", 0, 0>>
    /\ sphereQuat = IdentityQuat
    /\ courseVisible = FALSE
    /\ courseRotationY = 0
    /\ animationScheduled = FALSE
    /\ drawnDisposed = FALSE
    /\ selectionStale = FALSE

\* ---------------------------------------------------------------- actions

\* The selected pair of topic names.
Selection(st) == <<st.topic, st.course_topic>>

\* Some call of `calls` asks for exactly the topics `sel`.
Requested(calls, sel) == \E i \in 1..Len(calls) : calls[i] = sel

HasUpdates ==
    updTopics.set \/ updMessages.set \/ updRenderDone.set \/ stateQueue # <<>>

\* The first render of the component: every effect is scheduled.
Mount ==
    /\ phase = "created"
    /\ phase' = "mounted"
    /\ pendingEffects' = AllEffects
    /\ UNCHANGED <<hookVars, queueVars, hostVars, sceneVars, selectionStale>>

\* A re-render: the queued updates become the hook values and each effect
\* whose dependency list changed is scheduled.  React runs the effects of
\* the previous render before it renders again.
Render ==
    /\ phase = "mounted"
    /\ pendingEffects = {}
    /\ HasUpdates
    /\ topics' = IF updTopics.set THEN updTopics.value ELSE topics
    /\ messages' = IF updMessages.set THEN updMessages.value ELSE messages
    /\ renderDone' = IF updRenderDone.set THEN updRenderDone.value ELSE renderDone
    /\ state' = ApplyUpdates(state, stateQueue)
    /\ pendingEffects' =
           ChangedEffects(stateQueue # <<>>, state, state', topics, topics',
                          messages, messages', renderDone, renderDone')
    /\ updTopics' = [set |-> FALSE, value |-> NoTopics]
    /\ updMessages' = [set |-> FALSE, value |-> NoMessages]
    /\ updRenderDone' = [set |-> FALSE, value |-> 0]
    /\ stateQueue' = <<>>
    /\ selectionStale' = (selectionStale \/ Selection(state') # Selection(state))
    /\ UNCHANGED <<phase, hostVars, sceneVars>>

\* The effects scheduled by the last render, in declaration order.
FlushEffects ==
    /\ phase = "mounted"
    /\ pendingEffects # {}
    /\ LET runs(e) == e \in pendingEffects
           calls == (IF runs("saveState") THEN SaveStateSubscribes(state) ELSE <<>>)
                        \o (IF runs("subscribe") THEN SubscribeEffect(state) ELSE <<>>)
           sphere0 == IF runs("scene") THEN IdentityQuat ELSE sphereQuat
           visible0 == IF runs("scene") THEN FALSE ELSE courseVisible
           rotation0 == IF runs("scene") THEN 0 ELSE courseRotationY
       IN
       /\ savedState' = IF runs("saveState")
                        THEN [saved |-> TRUE, value |-> SavedValue(state)]
                        ELSE savedState
       /\ subscribeLog' = calls
       /\ subscribed' = IF calls # <<>>
                        THEN [called |-> TRUE, topics |-> calls[Len(calls)]]
                        ELSE subscribed
       /\ stateQueue' = IF runs("defaultTopic")
                        THEN stateQueue \o DefaultTopicEffect(state, topics)
                        ELSE stateQueue
       /\ settingsTree' = IF runs("settings") THEN SettingsTreeOf(state, topics)
                          ELSE settingsTree
       /\ sceneCreated' = IF runs("scene") THEN sceneCreated + 1 ELSE sceneCreated
       /\ cameraAspect' = IF runs("scene")
                          THEN Divide(containerSize[1], containerSize[2])
                          ELSE cameraAspect
       /\ resizeObserved' = IF runs("scene") THEN TRUE ELSE resizeObserved
       /\ animationScheduled' = IF runs("scene") THEN TRUE ELSE animationScheduled
       /\ onRenderInstalled' = IF runs("onRender") THEN TRUE ELSE onRenderInstalled
       /\ sphereQuat' = IF runs("messages") THEN SphereQuatAfter(sphere0, messages, state)
                        ELSE sphere0
       /\ courseVisible' = IF runs("messages")
                           THEN CourseVisibleAfter(visible0, messages, state)
                           ELSE visible0
       /\ courseRotationY' = IF runs("messages")
                             THEN CourseRotationAfter(rotation0, messages, state)
                             ELSE rotation0
       /\ doneCount' = IF runs("renderDone") /\ renderDone # 0
                       THEN [doneCount EXCEPT ![renderDone] = @ + 1]
                       ELSE doneCount
       /\ selectionStale' = (selectionStale /\ ~Requested(calls, SelectedTopics(state)))
    /\ pendingEffects' = {}
    /\ UNCHANGED <<phase, hookVars, updTopics, updMessages, updRenderDone,
                   frameCount, rendererDisposed, containerSize, drawnDisposed>>

\* The host calls context.onRender(renderState, done).  The three setters
\* queue updates; on an unmounted component they do nothing.
OnRender(tps, hasFrame, batch) ==
    /\ onRenderInstalled
    /\ frameCount < MaxFrames
    /\ frameCount' = frameCount + 1
    /\ IF phase = "mounted"
       THEN /\ updRenderDone' = [set |-> TRUE, value |-> frameCount + 1]
            /\ updTopics' = [set |-> TRUE, value |-> tps]
            /\ updMessages' = IF hasFrame
                              THEN [set |-> TRUE,
                                    value |-> [defined |-> TRUE, frame |-> frameCount + 1,
                                               batch |-> batch]]
                              ELSE updMessages
       ELSE UNCHANGED <<updRenderDone, updTopics, updMessages>>
    /\ UNCHANGED <<phase, hookVars, stateQueue, pendingEffects, savedState, subscribed,
                   subscribeLog, settingsTree, onRenderInstalled, doneCount, sceneVars,
                   selectionStale>>

\* The user picks an option in the settings editor: the host calls
\* actionHandler({action: "update", payload: {path: [_, field], value}}).
ActionHandler(field, value) ==
    /\ phase = "mounted"
    /\ settingsTree.defined
    /\ Len(stateQueue) < MaxQueue
    /\ \/ /\ field = "topic"
          /\ \E i \in 1..Len(settingsTree.topicOptions) : settingsTree.topicOptions[i] = value
       \/ /\ field = "course_topic"
          /\ \E i \in 1..Len(settingsTree.courseOptions) : settingsTree.courseOptions[i] = value
    /\ stateQueue' = Append(stateQueue, [kind |-> field, value |-> value])
    /\ UNCHANGED <<phase, hookVars, updTopics, updMessages, updRenderDone, pendingEffects,
                   hostVars, sceneVars, selectionStale>>

\* The container changes size; the ResizeObserver callback runs while it
\* observes the container.
Resize(size) ==
    /\ size # containerSize
    /\ containerSize' = size
    /\ cameraAspect' = IF resizeObserved THEN Divide(size[1], size[2]) ELSE cameraAspect
    /\ UNCHANGED <<phase, hookVars, queueVars, pendingEffects, hostVars, sceneCreated,
                   rendererDisposed, resizeObserved, sphereQuat, courseVisible,
                   courseRotationY, animationScheduled, drawnDisposed, selectionStale>>

\* A scheduled animation frame arrives: animate() requests the next frame
\* and calls renderer.render(scene, camera).  Nothing cancels the request.
Animate ==
    /\ animationScheduled
    /\ animationScheduled' = TRUE
    /\ drawnDisposed' = (drawnDisposed \/ rendererDisposed > 0)
    /\ UNCHANGED <<phase, hookVars, queueVars, pendingEffects, hostVars, sceneCreated,
                   rendererDisposed, resizeObserved, containerSize, cameraAspect,
                   sphereQuat, courseVisible, courseRotationY, selectionStale>>

\* The function returned by initNavballPanel: root.unmount() runs the scene
\* effect's cleanup, the only cleanup there is.
Unmount ==
    /\ phase = "mounted"
    /\ pendingEffects = {}
    /\ phase' = "unmounted"
    /\ resizeObserved' = FALSE
    /\ rendererDisposed' = rendererDisposed + 1
    /\ UNCHANGED <<hookVars, queueVars, pendingEffects, hostVars, sceneCreated,
                   containerSize, cameraAspect, sphereQuat, courseVisible, courseRotationY,
                   animationScheduled, drawnDisposed, selectionStale>>

TopicNames == {"/att", "/att2", "/course"}

Next ==
    \/ Mount
    \/ Render
    \/ FlushEffects
    \/ \E tps \in HostTopics, batch \in HostBatches : OnRender(tps, TRUE, batch)
    \/ \E tps \in HostTopics : OnRender(tps, FALSE, <<>>)
    \/ \E field \in {"topic", "course_topic"}, value \in TopicNames :
           ActionHandler(field, value)
    \/ \E size \in HostSizes : Resize(size)
    \/ Unmount
    \/ Animate

Spec == Init /\ [][Next]_vars

\* React's scheduler runs every scheduled render and effect flush.
FairSpec == Spec /\ WF_vars(Mount) /\ WF_vars(Render) /\ WF_vars(FlushEffects)

\* ------------------------------------------------- the end-to-end scenario

\* The host of the scenario: one quaternion topic /att, and batches of one
\* message on it.
E2ETopics == [defined |-> TRUE, id |-> 5, list |-> <<Topic("/att", QuatSchema)>>]
E2EBatches == { <<Msg("/att", Quat(0, 0, 0, 1))>>, <<Msg("/att", Quat(1, 2, 3, 4))>> }

\* No prior configuration.
E2EInit == Init /\ state = [topic |-> Undef, course_topic |-> Undef]

E2ENext ==
    \/ Mount
    \/ Render
    \/ FlushEffects
    \/ \E batch \in E2EBatches : OnRender(E2ETopics, TRUE, batch)
    \/ \E value \in TopicNames : ActionHandler("topic", value)
    \/ \E size \in HostSizes : Resize(size)
    \/ Unmount
    \/ Animate

\* React's scheduler runs every scheduled render and effect flush.
E2ESpec ==
    E2EInit /\ [][E2ENext]_vars
        /\ WF_vars(Mount) /\ WF_vars(Render) /\ WF_vars(FlushEffects)

\* ------------------------------------------------ any topic list of the host

TopicUniverse ==
    { Topic("/att", QuatSchema), Topic("/course", VecSchema), Topic("/att2", QuatSchema) }

\* The lists of distinct topics, in any order, up to MaxTopics long.
TopicLists ==
    { l \in UNION { [1..n -> TopicUniverse] : n \in 0..MaxTopics } :
        \A i, j \in 1..Len(l) : i # j => l[i] # l[j] }

\* The host hands over a new array with each invocation.
FreshTopics(f) == { [defined |-> TRUE, id |-> 10 + f, list |-> l] : l \in TopicLists }

TopicListNext ==
    \/ Mount
    \/ Render
    \/ FlushEffects
    \/ \E tps \in FreshTopics(frameCount + 1) : OnRender(tps, FALSE, <<>>)

TopicListSpec == Init /\ [][TopicListNext]_vars

\* --------------------------------------------------- any heading on an axis

\* Heading vectors along an axis of the horizontal plane, of length 1 or 2,
\* and the zero vector, each with two values of z.
HeadingVectors ==
    { Vec(x, y, z) : x \in {-1, 0, 1, 2}, y \in {-1, 0, 1, 2}, z \in {0, 5} }
        \ { Vec(x, y, z) : x \in {-1, 1, 2}, y \in {-1, 1, 2}, z \in {0, 5} }

HeadingBatches == { <<Msg("/course", v)>> : v \in HeadingVectors }

\* A topic list that offers /course to the settings editor.
HeadingTopics == CHOOSE tps \in HostTopics : tps.id = 1

HeadingNext ==
    \/ Mount
    \/ Render
    \/ FlushEffects
    \/ \E batch \in HeadingBatches : OnRender(HeadingTopics, TRUE, batch)
    \/ \E value \in TopicNames : ActionHandler("course_topic", value)

HeadingSpec == Init /\ [][HeadingNext]_vars

\* ------------------------------------------------------------ properties

\* Every effect of the last render has run.
EffectsRan == phase = "mounted" /\ pendingEffects = {}

\* React has nothing left to do: no effect is pending, no update is queued.
Quiescent == EffectsRan /\ ~HasUpdates

\* The scene is what the messages effect makes of the current batch and
\* configuration: running the effect again changes nothing.
SceneUpToDate(q, vis, rot, msgs, st) ==
    /\ SphereQuatAfter(q, msgs, st) = q
    /\ CourseVisibleAfter(vis, msgs, st) = vis
    /\ CourseRotationAfter(rot, msgs, st) = rot

\* C1: once React has nothing left to do, the done callback of every
\* onRender invocation made so far has been invoked.
C1_EveryDoneInvoked ==
    Quiescent => \A f \in 1..frameCount : doneCount[f] >= 1

\* C2: the done callback of any single onRender invocation has been invoked
\* at most once.
C2_DoneAtMostOnce == \A f \in Frames : doneCount[f] <= 1

\* C2 witness: the first frame's done was invoked, then the user selected
\* /att2 (an option that only the first frame's topic list offers), the
\* panel re-rendered and ran its effects, and no second frame arrived.
C2_Witness ==
    /\ Quiescent
    /\ frameCount = 1
    /\ doneCount[1] = 1
    /\ state.topic = "/att2"
    /\ settingsTree.topicValue = "/att2"

\* C3: a frame's done callback is invoked only when the scene has been
\* updated from that frame's batch, and the scene is never changed from a
\* frame's batch after that frame's done callback was invoked.
C3_DoneAfterSceneUpdate ==
    [][ /\ \A f \in Frames :
              (doneCount'[f] > doneCount[f] /\ messages'.frame = f)
                  => SceneUpToDate(sphereQuat', courseVisible', courseRotationY',
                                   messages', state')
        /\ (<<sphereQuat, courseVisible, courseRotationY>>'
                # <<sphereQuat, courseVisible, courseRotationY>> /\ messages.defined)
              => doneCount[messages.frame] = 0 ]_vars

\* C4: a step that ends with a batch holding no message (with a payload) on
\* the selected orientation topic leaves the sphere orientation as it was.
C4_OrientationKept ==
    [][ ~HasPayload(Find(messages'.batch, state'.topic)) => sphereQuat' = sphereQuat ]_vars

\* C4 witness: the sphere was turned by an earlier batch, and the second
\* frame's batch, without a message on the selected topic, has been processed.
C4_Witness ==
    /\ Quiescent
    /\ messages.defined
    /\ messages.frame = 2
    /\ doneCount[2] = 1
    /\ ~Find(messages.batch, state.topic).found
    /\ sphereQuat = <<1, 3, 2, 4>>

\* C5: after a batch whose heading message on the selected heading topic has
\* x = 0 and y = 0 was processed, the heading indicator is hidden.
C5_ZeroHeadingHidden ==
    LET courseMsg == Find(messages.batch, state.course_topic) IN
    (EffectsRan /\ messages.defined /\ HasPayload(courseMsg)
        /\ courseMsg.message.x = 0 /\ courseMsg.message.y = 0)
        => ~courseVisible

\* C6: once the effects have run, the heading indicator is visible only if
\* the current batch carries a message on the selected heading topic; after a
\* batch without one it is hidden.
C6_HiddenWithoutHeading ==
    (pendingEffects = {} /\ courseVisible)
        => (messages.defined /\ Find(messages.batch, state.course_topic).found)

\* C6 witness: the indicator was shown and turned by an earlier batch, and the
\* second batch, without a heading message, has hidden it.
C6_Witness ==
    /\ Quiescent
    /\ state.course_topic = "/course"
    /\ messages.frame = 2
    /\ ~Find(messages.batch, state.course_topic).found
    /\ courseRotationY = 1571
    /\ ~courseVisible

\* A queued setState call made by the settings action handler for `field`.
UserUpdateQueued(field) ==
    \E i \in 1..Len(stateQueue) : stateQueue[i].kind = field

\* C7: a selected orientation topic changes only by a user update; a
\* selection made without one is the first quaternion candidate of the topic
\* list; and with candidates the panel does not come to rest unselected.
C7_DefaultSelection ==
    /\ [][ state.topic # Undef
              => (state'.topic = state.topic \/ UserUpdateQueued("topic")) ]_vars
    /\ [][ (state.topic = Undef /\ state'.topic # Undef /\ ~UserUpdateQueued("topic"))
              => (quatTopics(topics) # <<>>
                    /\ state'.topic = Head(quatTopics(topics)).name) ]_vars
    /\ [](Quiescent /\ quatTopics(topics) # <<>> => state.topic # Undef)

\* C7 witness: /att is selected and kept while the candidates are [/att2].
C7_Witness ==
    /\ Quiescent
    /\ state.topic = "/att"
    /\ Names(quatTopics(topics)) = <<"/att2">>
    /\ settingsTree.topicOptions = <<"/att2">>

\* C8: once the effects have run, every change of the selection has been
\* followed by a context.subscribe call for exactly the selected topics.
C8_SubscribedAfterChange == EffectsRan => ~selectionStale

\* C8 witness: with /course selected the orientation topic changed to /att2,
\* and the flush that followed asked for both topics in one call.
C8_Witness ==
    /\ EffectsRan
    /\ Selection(state) = <<"/att2", "/course">>
    /\ Requested(subscribeLog, <<"/att2", "/course">>)
    /\ Len(subscribeLog) = 3

\* C9: once the effects have run, the last configuration handed to
\* context.saveState is the current configuration.
C9_SavedIsCurrent == EffectsRan => (savedState.saved /\ savedState.value = state)

\* C9 witness: the user selected both topics and the result was saved.
C9_Witness ==
    /\ EffectsRan
    /\ state = [topic |-> "/att2", course_topic |-> "/course"]
    /\ savedState.value = state
    /\ frameCount >= 1

\* C10: after teardown context.onRender is no longer installed and the
\* resize observer no longer observes.
C10_Deregistered ==
    phase = "unmounted" => (~onRenderInstalled /\ ~resizeObserved)

\* /att is selected, the last subscription request names it, and the sphere
\* shows the first /att message of the current batch.
E2EGoal ==
    /\ state.topic = "/att"
    /\ subscribed.called
    /\ \E i \in 1..Len(subscribed.topics) : subscribed.topics[i] = "/att"
    /\ messages.defined
    /\ LET m == messages.batch[1].message IN sphereQuat = <<m.x, m.z, m.y, m.w>>

\* C11: with no prior configuration, topics [/att] and a batch of one /att
\* message, the panel comes to select /att, subscribe to it and show the
\* message's orientation (unless it is torn down first), and it rests there.
C11_EndToEnd ==
    /\ [](Quiescent /\ messages.defined => E2EGoal)
    /\ (frameCount >= 1) ~> (E2EGoal \/ phase = "unmounted")

\* C11 witness: one frame with payload (0,0,0,1) was delivered and processed.
C11_Witness ==
    /\ Quiescent
    /\ frameCount = 1
    /\ doneCount[1] = 1
    /\ messages.batch = <<Msg("/att", Quat(0, 0, 0, 1))>>
    /\ E2EGoal
    /\ sphereQuat = <<0, 0, 0, 1>>

\* The k-th smallest element of a set of numbers.
KthSmallest(S, k) == CHOOSE i \in S : Cardinality({ j \in S : j < i }) = k - 1

\* `out` holds exactly the topics of `list` with schema `schema`, in the
\* order of `list`.
IsSelection(out, list, schema) ==
    LET idx == { i \in 1..Len(list) : list[i].schemaName = schema } IN
    /\ DOMAIN out = 1..Cardinality(idx)
    /\ \A k \in 1..Cardinality(idx) : out[k] = list[KthSmallest(idx, k)]

\* C12: the quaternion and the vector candidates are exactly the topics of
\* the host's list with that schema, in the list's order; before any list
\* they are the empty sequence; and the settings options are their names.
C12_Candidates ==
    /\ \A schema \in {QuatSchema, VecSchema} :
          /\ IsSelection(Candidates(topics, schema), topics.list, schema)
          /\ (~topics.defined => Candidates(topics, schema) = <<>>)
    /\ EffectsRan =>
          /\ settingsTree.topicOptions = Names(quatTopics(topics))
          /\ settingsTree.courseOptions = Names(vecTopics(topics))

\* C12 witness: a list with a vector topic between two quaternion topics.
C12_Witness ==
    /\ EffectsRan
    /\ Names(topics.list) = <<"/att2", "/course", "/att">>
    /\ settingsTree.topicOptions = <<"/att2", "/att">>
    /\ settingsTree.courseOptions = <<"/course">>

\* C13: once the effects have run on a batch with an orientation message,
\* the sphere quaternion is (x, z, y, w) of that message; and swapping y and
\* z twice gives back the message's (x, y, z, w).
C13_AxisSwap ==
    /\ LET quatMsg == Find(messages.batch, state.topic) IN
       (EffectsRan /\ messages.defined /\ HasPayload(quatMsg))
           => /\ sphereQuat[1] = quatMsg.message.x
              /\ sphereQuat[2] = quatMsg.message.z
              /\ sphereQuat[3] = quatMsg.message.y
              /\ sphereQuat[4] = quatMsg.message.w
    /\ \A i \in 1..Len(messages.batch) :
          LET m == messages.batch[i].message
              once == SetQuaternion(m)
          IN SetQuaternion(Quat(once[1], once[2], once[3], once[4]))
                 = <<m.x, m.y, m.z, m.w>>

\* C13 witness: the message (4, 3, 2, 1) on /att2 was applied.
C13_Witness ==
    /\ EffectsRan
    /\ state.topic = "/att2"
    /\ HasPayload(Find(messages.batch, "/att2"))
    /\ sphereQuat = <<4, 2, 3, 1>>

\* The places of the messages on topic `name` in a batch.
Places(batch, name) == { i \in 1..Len(batch) : batch[i].topic = name }

\* The least element of a non-empty set of numbers.
Least(S) == CHOOSE i \in S : \A j \in S : i <= j

\* C14: the message used for a selected topic is the one at the least place
\* of the batch with that topic, and none when there is no such place (the
\* name is unset or matches nothing); the sphere shows that message.
C14_FirstMessage ==
    /\ \A name \in {state.topic, state.course_topic} :
          LET used == Find(messages.batch, name)
              places == Places(messages.batch, name)
          IN /\ used.found = (places # {})
             /\ (name = Undef => ~used.found)
             /\ (places # {} => used.message = messages.batch[Least(places)].message)
    /\ LET places == Places(messages.batch, state.topic) IN
       (EffectsRan /\ places # {} /\ ~messages.batch[Least(places)].message.isNull)
           => LET m == messages.batch[Least(places)].message IN
              sphereQuat = <<m.x, m.z, m.y, m.w>>

\* C14 witness: a batch with two messages on /att was applied and the sphere
\* shows the first, (1, 2, 3, 4), not the second, (0, 0, 0, 1).
C14_Witness ==
    /\ EffectsRan
    /\ state.topic = "/att"
    /\ Cardinality(Places(messages.batch, "/att")) = 2
    /\ HasPayload(Find(messages.batch, "/att"))
    /\ sphereQuat = <<1, 3, 2, 4>>

\* C15: the configured heading topic takes a topic name only by a user
\* update of the heading field; no effect selects one, whatever vector
\* candidates there are.
C15_HeadingNeverDefaulted ==
    [][ (state'.course_topic # state.course_topic /\ state'.course_topic # Undef)
            => UserUpdateQueued("course_topic") ]_vars

\* C15 witness: /course is a vector candidate, the default selection has
\* picked an orientation topic, and no heading topic is selected.
C15_Witness ==
    /\ Quiescent
    /\ settingsTree.courseOptions = <<"/course">>
    /\ state = [topic |-> "/att2", course_topic |-> Undef]
    /\ Names(quatTopics(topics)) = <<"/att2">>

\* C16: the camera aspect is a ratio of a non-zero width and a non-zero
\* height, never the result of a division by zero.
C16_AspectGuarded ==
    cameraAspect[1] # "none"
        => (cameraAspect[1] = "ratio" /\ cameraAspect[2] # 0 /\ cameraAspect[3] # 0)

\* atan2 of an axis direction, in milliradians, by the claim's table: pi/2
\* for (1, 0), 0 for (0, 1), and their opposites.
ExpectedAngle(x, y) ==
    CASE x > 0 /\ y = 0 -> 1571
      [] x = 0 /\ y > 0 -> 0
      [] x < 0 /\ y = 0 -> -1571
      [] x = 0 /\ y < 0 -> 3142

\* C17: once the effects have run on a batch whose heading message has a
\* non-zero horizontal part, the indicator is visible and its rotation is the
\* angle of (x, y) alone: pi/2 along x, 0 along y, whatever z and the length.
C17_HeadingAngle ==
    LET courseMsg == Find(messages.batch, state.course_topic) IN
    (EffectsRan /\ messages.defined /\ HasPayload(courseMsg)
        /\ (courseMsg.message.x # 0 \/ courseMsg.message.y # 0))
        => /\ courseVisible
           /\ courseRotationY = ExpectedAngle(courseMsg.message.x, courseMsg.message.y)

\* C17 witness: the heading (2, 0, 5) was applied: visible, at pi/2.
C17_Witness ==
    /\ EffectsRan
    /\ state.course_topic = "/course"
    /\ messages.batch = <<Msg("/course", Vec(2, 0, 5))>>
    /\ courseVisible
    /\ courseRotationY = 1571

\* C18: the scene is built once, by the first effect flush, and never again;
\* the renderer is disposed once, by the teardown, and not before.
C18_SceneLifecycle ==
    /\ sceneCreated <= 1
    /\ (EffectsRan \/ phase = "unmounted") => sceneCreated = 1
    /\ rendererDisposed = (IF phase = "unmounted" THEN 1 ELSE 0)

\* C18 witness: two frames, a topic-list change and a user selection were
\* processed, then the panel was torn down.
C18_Witness ==
    /\ phase = "unmounted"
    /\ doneCount[2] = 1
    /\ state.topic = "/att2"
    /\ settingsTree.topicValue = "/att2"
    /\ sceneCreated = 1
    /\ rendererDisposed = 1

\* C19: the configured heading topic changes only by a user update of the
\* heading field.
C19_HeadingOnlyByUser ==
    [][ state'.course_topic # state.course_topic
            => UserUpdateQueued("course_topic") ]_vars

\* C20: once the effects have run, the most recent context.subscribe call
\* names every selected topic.
C20_LastSubscribeComplete ==
    EffectsRan
        => /\ subscribed.called
           /\ \A i \in 1..Len(SelectedTopics(state)) :
                 \E j \in 1..Len(subscribed.topics) :
                     subscribed.topics[j] = SelectedTopics(state)[i]

\* C21: once the scene cleanup has disposed the renderer, no animation frame
\* runs again: animate() neither reschedules itself nor calls renderer.render.
C21_TickStops ==
    rendererDisposed > 0 => ~drawnDisposed

====
